---- MODULE Spec2Model ----
(***************************************************************************)
(* chat-p2p: signed chat events (src/src/chat_event.rs), the gossip        *)
(* receive loop (src/src/main.rs), the WhoAmI identity challenge and the   *)
(* DHT announce / collect functions (src/src/discovery.rs).                *)
(*                                                                         *)
(* Bytes are modelled as naturals.  The fixed-width fields of the wire     *)
(* formats (16-byte nonce, 32-byte key, 64-byte signature) are each        *)
(* modelled as ONE cell; postcard's varint length prefixes are one cell    *)
(* (all lengths are below 128).  Ed25519 is modelled symbolically: a       *)
(* signature is an injective encoding of (secret, message), and            *)
(* verify_strict accepts exactly the signature made by the secret of the   *)
(* key over the message.                                                   *)
(***************************************************************************)
EXTENDS Integers, Sequences, FiniteSets, TLC

VARIABLES
  \* --- event construction and verification (chat_event.rs)
  builder,      \* the ChatEventBuilder value: its EventState and SignState markers
  chosen,       \* the payload the caller chose
  signedEv,     \* the SignedChatEvent returned by sign
  signKey,      \* the secret handed to sign (0: none yet)
  tampered,     \* which field of signedEv was changed after signing ("no": none)
  vres,         \* the result of verify_into
  nPayload,     \* payload choices made on this builder
  nSign         \* sign calls made on this builder

VARIABLES
  \* --- the receiving side of the gossip topic (main.rs, subscribe_loop)
  chan,          \* the next item of the receiver's stream: the content of an
                 \* Event::Received not yet taken by try_next (empty: none yet)
  loopState,     \* "running", "ended" (Ok), "err_stream" or "err_postcard" (Err)
  lastMsg,       \* the content of the message the loop took last
  lastOutcome,   \* what the loop did with the message it took last
  lastDelivered, \* the ChatEvent that reached the match arms last, and its source
  honestSigned,  \* the SignedChatEvents honest nodes have broadcast
  names,         \* the loop's HashMap of names
  nMsgs          \* messages put on the topic so far

VARIABLES
  \* --- the WhoAmI responder (discovery.rs, run_whoami_server)
  srvState,      \* "unbound", "running", or "failed_.." (the function returned Err)
  srvSocket,     \* "none", "usable", or "broken" (after an error that leaves it unusable)
  srvBuf,        \* buf: the receive buffer, reused by every iteration
  srvDgram,      \* the datagram the last iteration received: [src, bytes]
  srvReaction,   \* what the last iteration did with it
  srvResp,       \* the datagram the last iteration sent: [to, bytes]
  nRecv,         \* datagrams received
  nValid,        \* of these, the ones that are valid requests
  nResp          \* responses sent

VARIABLES
  \* --- one call of probe_peer (discovery.rs) and the network around it
  pPc,           \* "idle", "sent" (awaiting the timeout-wrapped recv_from), "done"
  pTarget,       \* addr: "S" (the honest responder) or "A" (the attacker)
  pNonce,        \* the nonce drawn for this call
  pTimeout,      \* the timeout argument, in ticks
  pElapsed,      \* ticks since the wait began
  pDgram,        \* the datagram recv_from returned: [got, bytes]
  pResult,       \* the value returned: [kind, id]
  pnSent,        \* request datagrams this call has sent
  pnRecv,        \* datagrams this call has taken from its socket
  reqToS,        \* the prober's request on its way to the responder: [sent, bytes]
  respToP,       \* datagrams the responder sent to the prober's socket
  advSeen        \* WhoAmI / WhoAmIResp values the attacker has received

VARIABLES
  \* --- one call of dht_collect_peers (discovery.rs)
  cPc,           \* "idle", "waiting" (in the timeout-wrapped stream.next()), "done"
  cTarget,       \* target
  cTimeout,      \* timeout, in ticks
  cDeadline,     \* deadline = Instant::now() + timeout
  cNow,          \* ticks since the call started
  cBudget,       \* the duration handed to tokio::time::timeout for the current wait
  cWaited,       \* ticks spent in the current wait
  cOut,          \* out_set, as the sequence of its elements
  cYielded,      \* every address the lookup has yielded
  cBatch,        \* the batch the lookup yielded last
  cResult,       \* the Vec returned
  cExit          \* how the loop was left: "target", "deadline", "stream_end", "timeout"

VARIABLES
  \* --- dht_reannounce_loop and infohash_for (discovery.rs)
  aPc,           \* "announcing" (in announce_peer), "sleeping", "cancelled"
  aTopic,        \* the topic the caller hashed into the infohash argument
  aPort,         \* port
  aPeriod,       \* period, in ticks
  aSlept,        \* ticks of the current sleep
  aLast,         \* the last attempt: [res, infohash, port]
  ids            \* per process, its last call of infohash_for: [topic, id]

VARIABLES
  \* --- two concurrent calls of probe_peer (discovery.rs), per call
  qPc,           \* "idle", "sent", "done"
  qTarget,       \* addr
  qNonce,        \* the nonce the call drew
  qDgram,        \* the datagram its recv_from returned: [got, for, bytes]
  qResult        \* the value it returned

VARIABLES
  \* --- a verifier that is handed copies of one SignedChatEvent (chat_event.rs)
  vEvent,        \* the event
  vLog           \* the results of verify_into on its copies, in order

eventVars == <<builder, chosen, signedEv, signKey, tampered, vres, nPayload, nSign>>
gossipVars == <<chan, loopState, lastMsg, lastOutcome, lastDelivered, honestSigned, names, nMsgs>>
srvVars == <<srvState, srvSocket, srvBuf, srvDgram, srvReaction, srvResp, nRecv, nValid, nResp>>
probeVars == <<pPc, pTarget, pNonce, pTimeout, pElapsed, pDgram, pResult, pnSent, pnRecv,
               reqToS, respToP, advSeen>>

collectVars == <<cPc, cTarget, cTimeout, cDeadline, cNow, cBudget, cWaited, cOut,
                 cYielded, cBatch, cResult, cExit>>
announceVars == <<aPc, aTopic, aPort, aPeriod, aSlept, aLast, ids>>
dhtVars == <<collectVars, announceVars>>
pairVars == <<qPc, qTarget, qNonce, qDgram, qResult>>
verifyVars == <<vEvent, vLog>>

\* what an action on one part leaves alone
notEvent == <<gossipVars, srvVars, probeVars, dhtVars, pairVars, verifyVars>>
notGossip == <<eventVars, srvVars, probeVars, dhtVars, pairVars, verifyVars>>
notSrv == <<eventVars, gossipVars, probeVars, dhtVars, pairVars, verifyVars>>
notProbe == <<eventVars, gossipVars, srvVars, dhtVars, pairVars, verifyVars>>
notProbeSrv == <<eventVars, gossipVars, dhtVars, pairVars, verifyVars>>
notCollect == <<eventVars, gossipVars, srvVars, probeVars, announceVars, pairVars, verifyVars>>
notAnnounce == <<eventVars, gossipVars, srvVars, probeVars, collectVars, pairVars, verifyVars>>
notPair == <<eventVars, gossipVars, srvVars, probeVars, dhtVars, verifyVars>>
notVerify == <<eventVars, gossipVars, srvVars, probeVars, dhtVars, pairVars>>

\* ------------------------------------------------------------------ bounds
\* honest identities are the secrets 1..NumHonest; the adversary holds AdvSecret
NumHonest == 2
\* nonces are drawn from 0..MaxNonce (rand::random::<Nonce>())
MaxNonce == 1
\* name / message strings have at most MaxStrLen characters
MaxStrLen == 1
\* largest byte value used for characters and for tampering
MaxByte == 4
\* messages put on the gossip topic in one run
MaxMsgs == 2
\* cells of a datagram buffer ([0u8; 1500] in the program)
BufLen == 7
\* datagrams the responder receives in one run
MaxDgrams == 2
\* the timeout argument of probe_peer is 1..MaxTimeout ticks
MaxTimeout == 1
\* addresses the DHT lookup can yield are 1..NumPeers
NumPeers == 2
\* peers in one batch of the lookup stream
MaxBatch == 2
\* the timeout argument of dht_collect_peers is 0..MaxCollectTimeout ticks
MaxCollectTimeout == 2
\* the period argument of dht_reannounce_loop is 1..MaxPeriod ticks
MaxPeriod == 2
\* ports are 1..NumPorts
NumPorts == 2
\* copies of one event handed to the verifier
MaxReplays == 2

AdvSecret == NumHonest + 1
Secrets == 1..AdvSecret
HonestSecrets == 1..NumHonest
Nonces == 0..MaxNonce
Byte == 0..MaxByte
Chars == {1, 2}

RECURSIVE StrsUpTo(_)
StrsUpTo(n) ==
  IF n = 0 THEN {<<>>}
  ELSE LET S == StrsUpTo(n - 1)
       IN  S \cup {Append(s, c) : s \in {t \in S : Len(t) = n - 1}, c \in Chars}

Strings == StrsUpTo(MaxStrLen)

\* ------------------------------------------------------------ ed25519 (symbolic)
\* SigningKey::verifying_key: the public key of a secret (one cell on the wire)
verifying_key(sk) == 10 + sk

ValidPoints == {verifying_key(sk) : sk \in Secrets}
HonestKeys == {verifying_key(sk) : sk \in HonestSecrets}
AdvKey == verifying_key(AdvSecret)

\* injective numbering of a byte sequence (bijective base MaxByte + 2)
RECURSIVE EncSeq(_)
EncSeq(s) ==
  IF s = <<>> THEN 0 ELSE (Head(s) + 1) + (MaxByte + 2) * EncSeq(Tail(s))

\* Signer::sign: the signature of secret sk over msg (one cell on the wire, never 0)
Sign(sk, msg) == sk + (AdvSecret + 1) * (1 + EncSeq(msg))

\* VerifyingKey::verify_strict
verify_strict(pk, msg, sig) ==
  \E sk \in Secrets : verifying_key(sk) = pk /\ sig = Sign(sk, msg)

\* NodeId::from(VerifyingKey): the same 32 bytes
NodeIdFrom(pk) == pk

\* ------------------------------------------------------------ ChatEventBody
Body(tag, name, message) == [tag |-> tag, name |-> name, message |-> message]

Bodies ==
  {Body("NewMessage", n, m) : n \in Strings, m \in Strings}
    \cup {Body("SetName", n, <<>>) : n \in Strings}
    \cup {Body("NodeJoined", <<>>, <<>>), Body("NodeLeft", <<>>, <<>>)}

\* postcard: a string is its length as a varint, then its bytes
SerStr(s) == <<Len(s)>> \o s

\* postcard::to_allocvec(&ChatEventBody): variant index, then the fields
ToAllocVecBody(b) ==
  CASE b.tag = "NewMessage" -> <<0>> \o SerStr(b.name) \o SerStr(b.message)
    [] b.tag = "SetName"    -> <<1>> \o SerStr(b.name)
    [] b.tag = "NodeJoined" -> <<2>>
    [] b.tag = "NodeLeft"   -> <<3>>

\* postcard: take a string at position pos (1-based) of bytes
\* [ok, val, next]; fails on a missing or overlong length and on invalid UTF-8
TakeStr(bytes, pos) ==
  IF pos > Len(bytes) THEN [ok |-> FALSE, val |-> <<>>, next |-> pos]
  ELSE LET n == bytes[pos]
       IN  IF pos + n > Len(bytes) THEN [ok |-> FALSE, val |-> <<>>, next |-> pos]
           ELSE LET s == SubSeq(bytes, pos + 1, pos + n)
                IN  IF \E i \in 1..n : s[i] >= 128
                    THEN [ok |-> FALSE, val |-> <<>>, next |-> pos]
                    ELSE [ok |-> TRUE, val |-> s, next |-> pos + n + 1]

BadBody == [ok |-> FALSE, body |-> Body("None", <<>>, <<>>)]

\* postcard::from_bytes::<ChatEventBody>: bytes after the value are ignored
FromBytesBody(bytes) ==
  IF Len(bytes) = 0 THEN BadBody
  ELSE CASE bytes[1] = 0 ->
              LET n == TakeStr(bytes, 2)
              IN  IF ~n.ok THEN BadBody
                  ELSE LET m == TakeStr(bytes, n.next)
                       IN  IF ~m.ok THEN BadBody
                           ELSE [ok |-> TRUE, body |-> Body("NewMessage", n.val, m.val)]
         [] bytes[1] = 1 ->
              LET n == TakeStr(bytes, 2)
              IN  IF ~n.ok THEN BadBody
                  ELSE [ok |-> TRUE, body |-> Body("SetName", n.val, <<>>)]
         [] bytes[1] = 2 -> [ok |-> TRUE, body |-> Body("NodeJoined", <<>>, <<>>)]
         [] bytes[1] = 3 -> [ok |-> TRUE, body |-> Body("NodeLeft", <<>>, <<>>)]
         [] OTHER -> BadBody

\* ------------------------------------------------------------ SignedChatEvent
Signed(bb, n, k, s) == [body_bytes |-> bb, nonce |-> n, key |-> k, sig |-> s]

NoSigned == Signed(<<>>, 0, 0, 0)

\* a slip: the buffer is truncated before it is signed, so the nonce is not covered
sign_chat_event_truncate_first(event, key, nonce) ==
  LET body == ToAllocVecBody(event)
  IN  Signed(body, nonce, verifying_key(key), Sign(key, body))

\* sign_chat_event: serialize, append the nonce, sign, truncate the scratch buffer
sign_chat_event(event, key, nonce) ==
  LET body == ToAllocVecBody(event)
      bytes == body \o <<nonce>>
      sig == Sign(key, bytes)
  IN  Signed(SubSeq(bytes, 1, Len(body)), nonce, verifying_key(key), sig)

Event(tag, actor, name, message) ==
  [tag |-> tag, actor |-> actor, name |-> name, message |-> message]

NoChatEvent == Event("None", 0, <<>>, <<>>)

NoResult == [kind |-> "None", event |-> NoChatEvent]

\* a slip: the body is deserialized before the signature is checked
verify_into_deserialize_first(e) ==
  LET with_nonce == e.body_bytes \o <<e.nonce>>
      d == FromBytesBody(e.body_bytes)
  IN  IF ~d.ok
      THEN [kind |-> "Postcard", event |-> NoChatEvent]
      ELSE IF ~verify_strict(e.key, with_nonce, e.sig)
           THEN [kind |-> "Dalek", event |-> NoChatEvent]
           ELSE [kind |-> "Ok",
                 event |-> Event(d.body.tag, NodeIdFrom(e.key),
                                 d.body.name, d.body.message)]

\* a slip: the result of verify_strict is dropped instead of returned with `?`
verify_into_ignore_result(e) ==
  LET d == FromBytesBody(e.body_bytes)
  IN  IF ~d.ok
      THEN [kind |-> "Postcard", event |-> NoChatEvent]
      ELSE [kind |-> "Ok",
            event |-> Event(d.body.tag, NodeIdFrom(e.key), d.body.name, d.body.message)]

\* a slip: the verifier remembers what it has verified and refuses a second copy
verify_into_reject_replay(e) ==
  IF vLog # <<>> THEN [kind |-> "Dalek", event |-> NoChatEvent]
  ELSE IF ~verify_strict(e.key, e.body_bytes \o <<e.nonce>>, e.sig)
  THEN [kind |-> "Dalek", event |-> NoChatEvent]
  ELSE LET d == FromBytesBody(e.body_bytes)
       IN  IF ~d.ok THEN [kind |-> "Postcard", event |-> NoChatEvent]
           ELSE [kind |-> "Ok",
                 event |-> Event(d.body.tag, NodeIdFrom(e.key), d.body.name, d.body.message)]

\* SignedChatEvent::verify_into: signature over body_bytes  ++  nonce first, then the
\* body is deserialized; the actor is the embedded key
verify_into(e) ==
  LET body_bytes_len == Len(e.body_bytes)
      with_nonce == e.body_bytes \o <<e.nonce>>
  IN  IF ~verify_strict(e.key, with_nonce, e.sig)
      THEN [kind |-> "Dalek", event |-> NoChatEvent]
      ELSE LET d == FromBytesBody(SubSeq(with_nonce, 1, body_bytes_len))
           IN  IF ~d.ok
               THEN [kind |-> "Postcard", event |-> NoChatEvent]
               ELSE [kind |-> "Ok",
                     event |-> Event(d.body.tag, NodeIdFrom(e.key),
                                     d.body.name, d.body.message)]

\* ------------------------------------------------------------ ChatEventBuilder
Builder(ev, sg, name, message) ==
  [event |-> ev, sign |-> sg, name |-> name, message |-> message]

NoBuilder == Builder("None", "None", <<>>, <<>>)
\* a builder that has been moved out of (self is taken by value)
Moved == Builder("Moved", "Moved", <<>>, <<>>)

PayloadTags == {"NewMessage", "SetName", "NodeJoined", "NodeLeft"}

\* impl ChatEventBuilder<Initial, Initial>: the payload methods exist only here
IsInitial(b) == b.event = "Initial" /\ b.sign = "Initial"

\* impl ChatEventBuilder<E, ReadyToSign> for the four payload markers: sign exists only here
IsReadyToSign(b) == b.event \in PayloadTags /\ b.sign = "ReadyToSign"

\* a slip: sign takes &self, so the ready-to-sign value stays usable
AfterSign_borrowed(b) == b

\* what is left of the builder after sign(self, ..): nothing, it is consumed
AfterSign(b) == Moved

\* ChatEvent::builder() / ChatEventBuilder::new()
builder_new ==
  /\ builder = NoBuilder
  /\ builder' = Builder("Initial", "Initial", <<>>, <<>>)
  /\ UNCHANGED <<chosen, signedEv, signKey, tampered, vres, nPayload, nSign, notEvent>>

ChoosePayload(tag, name, message) ==
  /\ IsInitial(builder)
  /\ builder' = Builder(tag, "ReadyToSign", name, message)
  /\ chosen' = Body(tag, name, message)
  /\ nPayload' = nPayload + 1
  /\ UNCHANGED <<signedEv, signKey, tampered, vres, nSign, notEvent>>

new_message == \E name \in Strings, message \in Strings :
                  ChoosePayload("NewMessage", name, message)

set_name == \E name \in Strings : ChoosePayload("SetName", name, <<>>)

node_joined == ChoosePayload("NodeJoined", <<>>, <<>>)

node_left == ChoosePayload("NodeLeft", <<>>, <<>>)

\* ChatEventBuilder<E, ReadyToSign>::sign(self, key): the nonce is rand::random
sign ==
  \E key \in Secrets, nonce \in Nonces :
    /\ IsReadyToSign(builder)
    /\ signedEv' = sign_chat_event(Body(builder.event, builder.name, builder.message),
                                   key, nonce)
    /\ signKey' = key
    /\ builder' = AfterSign(builder)
    /\ nSign' = nSign + 1
    /\ UNCHANGED <<chosen, tampered, vres, nPayload, notEvent>>

\* signatures a tamperer may put in place of the genuine one
SigCandidates(e) ==
  {0} \cup {Sign(sk, e.body_bytes \o <<e.nonce>>) : sk \in Secrets}
      \cup {Sign(sk, e.body_bytes) : sk \in Secrets}

\* one field of the signed event is changed to a different value before verification
Tamper ==
  /\ signedEv # NoSigned /\ tampered = "no" /\ vres = NoResult
  /\ \/ \E i \in 1..Len(signedEv.body_bytes), v \in Byte :
          /\ v # signedEv.body_bytes[i]
          /\ signedEv' = [signedEv EXCEPT !.body_bytes[i] = v]
          /\ tampered' = "body_bytes"
     \/ \E v \in Byte :
          /\ v # signedEv.nonce
          /\ signedEv' = [signedEv EXCEPT !.nonce = v]
          /\ tampered' = "nonce"
     \/ \E k \in ValidPoints :
          /\ k # signedEv.key
          /\ signedEv' = [signedEv EXCEPT !.key = k]
          /\ tampered' = "key"
     \/ \E s \in SigCandidates(signedEv) :
          /\ s # signedEv.sig
          /\ signedEv' = [signedEv EXCEPT !.sig = s]
          /\ tampered' = "sig"
  /\ UNCHANGED <<builder, chosen, signKey, vres, nPayload, nSign, notEvent>>

\* SignedChatEvent::verify_into(self)
VerifyInto ==
  /\ signedEv # NoSigned /\ vres = NoResult
  /\ vres' = verify_into(signedEv)
  /\ UNCHANGED <<builder, chosen, signedEv, signKey, tampered, nPayload, nSign, notEvent>>

InitEvent ==
  /\ builder = NoBuilder
  /\ chosen = Body("None", <<>>, <<>>)
  /\ signedEv = NoSigned
  /\ signKey = 0
  /\ tampered = "no"
  /\ vres = NoResult
  /\ nPayload = 0
  /\ nSign = 0

NextEvent ==
  \/ builder_new
  \/ new_message
  \/ set_name
  \/ node_joined
  \/ node_left
  \/ sign
  \/ Tamper
  \/ VerifyInto

\* ------------------------------------------------------------ wire format
\* a slip: the key is written without its length
to_vec_key_without_len(e) ==
  <<Len(e.body_bytes)>> \o e.body_bytes \o <<e.nonce>> \o <<e.key>> \o <<e.sig>>

\* SignedChatEvent::to_vec (postcard): body_bytes with its length, the nonce, the key
\* as length-prefixed bytes (1 cell here, 32 bytes in the program), the signature
to_vec(e) == <<Len(e.body_bytes)>> \o e.body_bytes \o <<e.nonce>> \o <<1, e.key>> \o <<e.sig>>

BadSigned == [ok |-> FALSE, val |-> NoSigned]

\* postcard::from_bytes::<SignedChatEvent>: fails on truncated input, on a key of the
\* wrong length and on key bytes that are no curve point; trailing bytes are ignored
from_bytes_signed(bytes) ==
  IF Len(bytes) = 0 THEN BadSigned
  ELSE LET n == bytes[1]
       IN  IF Len(bytes) < n + 5 THEN BadSigned
           ELSE IF bytes[n + 3] # 1 \/ bytes[n + 4] \notin ValidPoints THEN BadSigned
           ELSE [ok |-> TRUE,
                 val |-> Signed(SubSeq(bytes, 2, n + 1), bytes[n + 2],
                                bytes[n + 4], bytes[n + 5])]

\* ------------------------------------------------------------ gossip topic
\* the payloads honest nodes send in this specification
GossipBodies == {Body("NewMessage", <<1>>, <<2>>), Body("SetName", <<2>>, <<>>)}

\* body bytes an attacker may put in an event: well-formed, unknown tag, truncated
AdvBodyBytes == {<<3>>, <<1, 1, 1>>, <<4>>, <<0, 1>>}

\* events the attacker signs with its own secret
AdvOwnEvents ==
  {Signed(bb, 0, AdvKey, Sign(AdvSecret, bb \o <<0>>)) : bb \in AdvBodyBytes}

\* what an attacker can make of an event it holds without an honest secret: the event
\* itself, or the event with another key, other body bytes, another nonce, a
\* signature that is not one, or its own signature in place of the signer's
AdvVariants(e) ==
  {e, [e EXCEPT !.sig = 0],
   [e EXCEPT !.sig = Sign(AdvSecret, e.body_bytes \o <<e.nonce>>)]}
    \cup {[e EXCEPT !.key = k] : k \in ValidPoints}
    \cup {[e EXCEPT !.body_bytes = bb] : bb \in AdvBodyBytes}
    \cup {[e EXCEPT !.nonce = n] : n \in Nonces}

\* what an attacker can put on the topic: the wire form of such events, cut wire
\* forms, a key of the wrong length, key bytes that are no curve point
AdvMessages ==
  UNION {{to_vec(v) : v \in AdvVariants(e)} : e \in honestSigned \cup AdvOwnEvents}
    \cup {<<>>, <<1, 3, 0>>, <<1, 3, 0, 1, 0, 0>>, <<1, 3, 0, 2, AdvKey, AdvKey, 0>>}
    \cup {SubSeq(to_vec(h), 1, Len(to_vec(h)) - 1) : h \in honestSigned}

NoDelivered == [event |-> NoChatEvent, from |-> NoSigned]

NoNames == [k \in ValidPoints |-> <<0>>]

\* main: ChatEvent::builder().<payload>.sign(key), then sender.broadcast(event.to_vec())
HonestBroadcast ==
  \E b \in GossipBodies, key \in HonestSecrets, nonce \in Nonces :
    LET e == sign_chat_event(b, key, nonce)
    IN  /\ nMsgs < MaxMsgs /\ chan = <<>>
        /\ chan' = Append(chan, to_vec(e))
        /\ honestSigned' = honestSigned \cup {e}
        /\ nMsgs' = nMsgs + 1
        /\ UNCHANGED <<loopState, lastMsg, lastOutcome, lastDelivered, names, notGossip>>

\* any other peer of the topic broadcasts bytes of its choice
AdvInject ==
  \E m \in AdvMessages :
    /\ nMsgs < MaxMsgs /\ chan = <<>>
    /\ chan' = Append(chan, m)
    /\ nMsgs' = nMsgs + 1
    /\ UNCHANGED <<loopState, lastMsg, lastOutcome, lastDelivered, honestSigned, names, notGossip>>

\* the match arms of subscribe_loop: SetName records the name, every arm prints
HandleEvent(ev) ==
  IF ev.tag = "SetName" THEN [names EXCEPT ![ev.actor] = ev.name] ELSE names

\* subscribe_loop, one iteration on Event::Received: deserialize with `?`, verify_into
\* with let-else continue, then the match
LoopReceived ==
  /\ loopState = "running" /\ chan # <<>>
  /\ LET d == from_bytes_signed(Head(chan))
         v == verify_into(d.val)
     IN  /\ chan' = Tail(chan)
         /\ lastMsg' = Head(chan)
         /\ IF ~d.ok
            THEN /\ loopState' = "err_postcard"
                 /\ lastOutcome' = "deserialize_failed"
                 /\ UNCHANGED <<lastDelivered, names>>
            ELSE IF v.kind # "Ok"
            THEN /\ lastOutcome' = "verify_failed"
                 /\ UNCHANGED <<loopState, lastDelivered, names>>
            ELSE /\ lastOutcome' = "delivered"
                 /\ lastDelivered' = [event |-> v.event, from |-> d.val]
                 /\ names' = HandleEvent(v.event)
                 /\ UNCHANGED loopState
  /\ UNCHANGED <<honestSigned, nMsgs, notGossip>>

\* subscribe_loop: try_next yields None (the stream ended): the loop returns Ok(())
LoopStreamEnd ==
  /\ loopState = "running" /\ chan = <<>>
  /\ loopState' = "ended"
  /\ UNCHANGED <<chan, lastMsg, lastOutcome, lastDelivered, honestSigned, names, nMsgs, notGossip>>

\* subscribe_loop: try_next yields Err: `?` returns it
LoopStreamError ==
  /\ loopState = "running"
  /\ loopState' = "err_stream"
  /\ UNCHANGED <<chan, lastMsg, lastOutcome, lastDelivered, honestSigned, names, nMsgs, notGossip>>

InitGossip ==
  /\ chan = <<>>
  /\ loopState = "running"
  /\ lastMsg = <<>>
  /\ lastOutcome = "none"
  /\ lastDelivered = NoDelivered
  /\ honestSigned = {}
  /\ names = NoNames
  /\ nMsgs = 0

NextGossip ==
  \/ HonestBroadcast
  \/ AdvInject
  \/ LoopReceived
  \/ LoopStreamEnd
  \/ LoopStreamError

\* ------------------------------------------------------------ COBS and postcard frames
Zeros(n) == [i \in 1..n |-> 0]

\* 0-based index of the first zero of buff, Len(buff) when there is none
FirstZero(buff) ==
  IF \E i \in 1..Len(buff) : buff[i] = 0
  THEN (CHOOSE i \in 1..Len(buff) : buff[i] = 0 /\ \A j \in 1..(i - 1) : buff[j] # 0) - 1
  ELSE Len(buff)

\* cobs::decode_in_place, the loop (indexes are 0-based as in the crate): a code byte
\* c is followed by c - 1 data bytes, copied down over the start of the buffer, and
\* stands for a zero after them unless it is 0xFF or the last one
RECURSIVE CobsLoop(_, _, _, _)
CobsLoop(buff, source_index, dest_index, src_end) ==
  IF source_index >= src_end
  THEN [ok |-> TRUE, buf |-> buff, len |-> dest_index]
  ELSE LET code == buff[source_index + 1]
       IN  IF source_index + code > src_end /\ code # 1
           THEN [ok |-> FALSE, buf |-> buff, len |-> dest_index]
           ELSE LET copied == [i \in 1..Len(buff) |->
                                 IF i > dest_index /\ i < dest_index + code
                                 THEN buff[i + source_index + 1 - dest_index]
                                 ELSE buff[i]]
                    s2 == source_index + code
                    d2 == dest_index + code - 1
                    zero == code # 255 /\ s2 < src_end
                IN  CobsLoop(IF zero THEN [copied EXCEPT ![d2 + 1] = 0] ELSE copied,
                             s2, IF zero THEN d2 + 1 ELSE d2, src_end)

\* cobs::decode_in_place: decodes up to the first zero of the whole buffer
decode_in_place(buff) == CobsLoop(buff, 0, 0, FirstZero(buff))

\* a conforming sender's framing (postcard::to_allocvec_cobs): COBS, then a zero
RECURSIVE CobsEncode(_)
CobsEncode(data) ==
  LET z == FirstZero(data) + 1
  IN  <<z>> \o SubSeq(data, 1, z - 1)
        \o (IF z > Len(data) THEN <<>> ELSE CobsEncode(SubSeq(data, z + 1, Len(data))))

Frame(data) == CobsEncode(data) \o <<0>>

\* WhoAmI and WhoAmIResp have the same shape: a nonce, a key, a signature
Msg(n, k, sg) == [nonce |-> n, key |-> k, sig |-> sg]

\* WhoAmI::to_bytes / WhoAmIResp::to_bytes: postcard::to_allocvec, NOT COBS-framed:
\* the nonce, the key as length-prefixed bytes, the signature
to_bytes(m) == <<m.nonce, 1, m.key, m.sig>>

\* postcard::from_bytes for WhoAmI / WhoAmIResp
from_bytes_msg(bytes) ==
  IF Len(bytes) >= 4 /\ bytes[2] = 1 /\ bytes[3] \in ValidPoints
  THEN [ok |-> TRUE, val |-> Msg(bytes[1], bytes[3], bytes[4])]
  ELSE [ok |-> FALSE, val |-> Msg(0, 0, 0)]

\* WhoAmI::from_buf / WhoAmIResp::from_buf: postcard::from_bytes_cobs on the WHOLE
\* buffer, decoded in place; [ok, val, buf] with buf the buffer as it is left
from_buf(buf) ==
  LET c == decode_in_place(buf)
      m == from_bytes_msg(SubSeq(c.buf, 1, c.len))
  IN  [ok |-> c.ok /\ m.ok, val |-> m.val, buf |-> c.buf]

\* UdpSocket::recv_from(&mut buf): the datagram overwrites the start of the buffer,
\* cut to the buffer's length; the rest of the buffer keeps what it held
recv_into(buf, bytes) ==
  [i \in 1..Len(buf) |-> IF i <= Len(bytes) THEN bytes[i] ELSE buf[i]]

\* a datagram taken by itself, in a buffer that holds nothing else
DecodeAlone(bytes) == from_buf(recv_into(Zeros(BufLen), bytes))

\* WhoAmI::into_resp: the client's signature over its nonce must verify; the answer
\* is the nonce, the responder's key and the responder's signature over the nonce
into_resp(w, sig_key) ==
  IF ~verify_strict(w.key, <<w.nonce>>, w.sig)
  THEN [ok |-> FALSE, val |-> Msg(0, 0, 0)]
  ELSE [ok |-> TRUE,
        val |-> Msg(w.nonce, verifying_key(sig_key), Sign(sig_key, <<w.nonce>>))]

\* ------------------------------------------------------------ the responder
\* the identity of the honest responder
ServerSecret == 1

Addrs == {"P", "A"}

\* the identity handed to probe_peer
ProberSecret == 2

\* a request that verifies, from an honest client or from the attacker
ValidRequests ==
  {Msg(n, verifying_key(sk), Sign(sk, <<n>>)) : n \in Nonces, sk \in {ProberSecret, AdvSecret}}

Prefixes(d) == {SubSeq(d, 1, j) : j \in 0..(Len(d) - 1)}

\* d with its first j cells zeroed
ZeroHead(d, j) == [i \in 1..Len(d) |-> IF i <= j THEN 0 ELSE d[i]]

\* datagrams that reach the responder: framed valid requests with and without the
\* final zero, the unframed bytes probe_peer sends, requests with a signature that
\* does not verify, frames followed by more bytes, cut frames (the empty datagram
\* among them), and frames whose head is overwritten with zeros
SrvDatagrams ==
  UNION {{Frame(to_bytes(r)), CobsEncode(to_bytes(r)), to_bytes(r),
          Frame(to_bytes(Msg(r.nonce, r.key, Sign(ServerSecret, <<r.nonce>>)))),
          CobsEncode(to_bytes(r)) \o <<2, 2>>, CobsEncode(to_bytes(r)) \o <<3, 3>>}
           \cup Prefixes(Frame(to_bytes(r)))
           \cup {ZeroHead(Frame(to_bytes(r)), j) : j \in 1..3}
         : r \in ValidRequests}

\* a valid request: it decodes by itself and its client signature verifies
IsValidRequest(bytes) ==
  LET d == DecodeAlone(bytes)
  IN  d.ok /\ into_resp(d.val, ServerSecret).ok

NoDgram == [src |-> "none", bytes |-> <<>>]
NoResp == [to |-> "none", bytes |-> <<>>]

\* run_whoami_server: UdpSocket::bind succeeds
SrvBind ==
  /\ srvState = "unbound"
  /\ srvState' = "running"
  /\ srvSocket' = "usable"
  /\ UNCHANGED <<srvBuf, srvDgram, srvReaction, srvResp, nRecv, nValid, nResp, notSrv>>

\* run_whoami_server: UdpSocket::bind fails and `?` returns the error
SrvBindFail ==
  /\ srvState = "unbound"
  /\ srvState' = "failed_bind"
  /\ UNCHANGED <<srvSocket, srvBuf, srvDgram, srvReaction, srvResp, nRecv, nValid, nResp,
                 notSrv>>

\* one iteration of the loop on datagram `bytes` from `src`: recv_from, from_buf on
\* the whole buffer, into_resp, send_to (which succeeds or fails)
SrvIteration(src, bytes, sendOk) ==
  LET filled == recv_into(srvBuf, bytes)
      w == from_buf(filled)
      r == into_resp(w.val, ServerSecret)
  IN  /\ srvState = "running" /\ nRecv < MaxDgrams
      /\ srvBuf' = w.buf
      /\ srvDgram' = [src |-> src, bytes |-> bytes]
      /\ nRecv' = nRecv + 1
      /\ nValid' = IF IsValidRequest(bytes) THEN nValid + 1 ELSE nValid
      /\ IF ~w.ok
         THEN /\ srvReaction' = "dropped_undecodable"
              /\ srvResp' = NoResp
              /\ UNCHANGED <<srvState, srvSocket, nResp>>
         ELSE IF ~r.ok
         THEN /\ srvReaction' = "dropped_bad_signature"
              /\ srvResp' = NoResp
              /\ UNCHANGED <<srvState, srvSocket, nResp>>
         ELSE IF sendOk
         THEN /\ srvReaction' = "answered"
              /\ srvResp' = [to |-> src, bytes |-> to_bytes(r.val)]
              /\ nResp' = nResp + 1
              /\ UNCHANGED <<srvState, srvSocket>>
         ELSE /\ srvReaction' = "send_error"
              /\ srvResp' = NoResp
              /\ srvState' = "failed_send"
              /\ srvSocket' \in {"usable", "broken"}
              /\ UNCHANGED nResp

SrvDatagram ==
  \E src \in Addrs, bytes \in SrvDatagrams :
    SrvIteration(src, bytes, TRUE) /\ UNCHANGED notSrv

\* the same iteration when socket.send_to returns Err: `?` returns it
SrvSendError ==
  \E src \in Addrs, bytes \in SrvDatagrams :
    /\ from_buf(recv_into(srvBuf, bytes)).ok
    /\ into_resp(from_buf(recv_into(srvBuf, bytes)).val, ServerSecret).ok
    /\ SrvIteration(src, bytes, FALSE)
    /\ UNCHANGED notSrv

\* socket.recv_from returns Err, with the socket still usable (a transient error) or
\* not: `?` returns it
SrvRecvError ==
  /\ srvState = "running"
  /\ srvState' = "failed_recv"
  /\ srvSocket' \in {"usable", "broken"}
  /\ UNCHANGED <<srvBuf, srvDgram, srvReaction, srvResp, nRecv, nValid, nResp, notSrv>>

InitSrv ==
  /\ srvState = "unbound"
  /\ srvSocket = "none"
  /\ srvBuf = Zeros(BufLen)
  /\ srvDgram = NoDgram
  /\ srvReaction = "none"
  /\ srvResp = NoResp
  /\ nRecv = 0
  /\ nValid = 0
  /\ nResp = 0

NextSrv ==
  \/ SrvBind
  \/ SrvBindFail
  \/ SrvDatagram
  \/ SrvSendError
  \/ SrvRecvError

\* ------------------------------------------------------------ probe_peer
\* a nonce the attacker draws itself: it cannot guess the prober's
AdvNonce == MaxNonce + 1

Result(kind, id) == [kind |-> kind, id |-> id]

\* a slip: the signature is checked before the nonce
verify_resp_signature_first(resp, nonce) ==
  IF ~verify_strict(resp.key, <<nonce>>, resp.sig) THEN "Dalek"
  ELSE IF resp.nonce # nonce THEN "InvalidNonce"
  ELSE "Ok"

\* a slip: the echoed nonce is not compared with the nonce sent
verify_resp_no_nonce_check(resp, nonce) ==
  IF ~verify_strict(resp.key, <<nonce>>, resp.sig) THEN "Dalek" ELSE "Ok"

\* WhoAmIResp::verify: the nonce first, then the signature over the nonce sent
verify_resp(resp, nonce) ==
  IF resp.nonce # nonce THEN "InvalidNonce"
  ELSE IF ~verify_strict(resp.key, <<nonce>>, resp.sig) THEN "Dalek"
  ELSE "Ok"

\* probe_peer after recv_from returned a datagram: from_buf on the (fresh) buffer,
\* verify, and the responder's key as the NodeId
probe_result(bytes, nonce) ==
  LET r == DecodeAlone(bytes)
  IN  IF ~r.ok THEN Result("Postcard", 0)
      ELSE LET v == verify_resp(r.val, nonce)
           IN  IF v # "Ok" THEN Result(v, 0) ELSE Result("Ok", NodeIdFrom(r.val.key))

\* a slip: after a datagram that is rejected the call waits for another one
after_recv_retry(result) == IF result.kind = "Ok" THEN "done" ELSE "sent"

\* probe_peer after the datagram: from_buf(..)?, verify(..)?, Ok(..) all return
after_recv(result) == "done"

\* a slip: recv_from is awaited without tokio::time::timeout
TimerExpired_never(elapsed, timeout) == FALSE

\* tokio::time::timeout(timeout, ..): the timer has run out
TimerExpired(elapsed, timeout) == elapsed >= timeout

\* signatures the attacker can write: its own over what it likes, those it has seen
AdvKnownSigs(n) == {Sign(AdvSecret, <<n>>)} \cup {m.sig : m \in advSeen}

AdvKnownNonces == {AdvNonce} \cup {m.nonce : m \in advSeen}

\* what the attacker can send to the prober's socket: any message built from what it
\* knows, framed as from_buf expects or unframed, and bytes that are no message
AdvToProber ==
  UNION {{Frame(to_bytes(Msg(n, k, sg))), to_bytes(Msg(n, k, sg))} :
            n \in AdvKnownNonces, k \in ValidPoints,
            sg \in UNION {AdvKnownSigs(x) : x \in AdvKnownNonces}}
    \cup {<<>>, <<2>>}

\* what the attacker can send to the responder: its own requests and the requests it
\* has received, framed
AdvToServer ==
  {Frame(to_bytes(Msg(n, AdvKey, Sign(AdvSecret, <<n>>)))) : n \in AdvKnownNonces}
    \cup {Frame(to_bytes(m)) : m \in advSeen}

NoBytes == [sent |-> FALSE, bytes |-> <<>>]

\* probe_peer up to the wait: bind, draw the nonce, sign it, send the request
ProbeStart ==
  \E addr \in {"S", "A"}, nonce \in Nonces, timeout \in 1..MaxTimeout :
    LET whoami == Msg(nonce, verifying_key(ProberSecret), Sign(ProberSecret, <<nonce>>))
    IN  /\ pPc = "idle"
        /\ pPc' = "sent"
        /\ pTarget' = addr
        /\ pNonce' = nonce
        /\ pTimeout' = timeout
        /\ IF addr = "S"
           THEN reqToS' = [sent |-> TRUE, bytes |-> to_bytes(whoami)] /\ UNCHANGED advSeen
           ELSE advSeen' = advSeen \cup {whoami} /\ UNCHANGED reqToS
        /\ pnSent' = pnSent + 1
        /\ UNCHANGED <<pElapsed, pDgram, pResult, pnRecv, respToP, notProbe>>

\* UdpSocket::bind or send_to fails: `?` returns the error
ProbeIoError ==
  /\ pPc = "idle"
  /\ pPc' = "done"
  /\ pResult' = Result("Io", 0)
  /\ UNCHANGED <<pTarget, pNonce, pTimeout, pElapsed, pDgram, pnSent, pnRecv, reqToS,
                 respToP, advSeen, notProbe>>

\* time passes while recv_from is pending
Tick ==
  /\ pPc = "sent" /\ pElapsed < pTimeout
  /\ pElapsed' = pElapsed + 1
  /\ UNCHANGED <<pPc, pTarget, pNonce, pTimeout, pDgram, pResult, pnSent, pnRecv, reqToS,
                 respToP, advSeen, notProbe>>

\* the timeout elapses first: map_err(|_| DiscoveryError::Timeout)
ProbeTimeout ==
  /\ pPc = "sent" /\ TimerExpired(pElapsed, pTimeout)
  /\ pPc' = "done"
  /\ pResult' = Result("Timeout", 0)
  /\ UNCHANGED <<pTarget, pNonce, pTimeout, pElapsed, pDgram, pnSent, pnRecv, reqToS,
                 respToP, advSeen, notProbe>>

\* recv_from returns a datagram (from any source address): decode, verify, return
ProbeRecv ==
  \E bytes \in respToP \cup AdvToProber :
    /\ pPc = "sent"
    /\ pPc' = after_recv(probe_result(bytes, pNonce))
    /\ pDgram' = [got |-> TRUE, bytes |-> bytes]
    /\ pnRecv' = pnRecv + 1
    /\ pResult' = probe_result(bytes, pNonce)
    /\ UNCHANGED <<pTarget, pNonce, pTimeout, pElapsed, pnSent, reqToS, respToP, advSeen,
                   notProbe>>

\* recv_from returns Err: the second `?` returns it
ProbeRecvError ==
  /\ pPc = "sent"
  /\ pPc' = "done"
  /\ pResult' = Result("Io", 0)
  /\ UNCHANGED <<pTarget, pNonce, pTimeout, pElapsed, pDgram, pnSent, pnRecv, reqToS,
                 respToP, advSeen, notProbe>>

\* where the responder's answer ends up: at the prober's socket or at the attacker
Route ==
  IF srvResp' = NoResp THEN UNCHANGED <<respToP, advSeen>>
  ELSE IF srvResp'.to = "P"
  THEN respToP' = respToP \cup {srvResp'.bytes} /\ UNCHANGED advSeen
  ELSE advSeen' = advSeen \cup {from_bytes_msg(srvResp'.bytes).val} /\ UNCHANGED respToP

\* the responder bound, in the probe's network
SrvUp ==
  /\ srvState = "unbound"
  /\ srvState' = "running"
  /\ srvSocket' = "usable"
  /\ UNCHANGED <<srvBuf, srvDgram, srvReaction, srvResp, nRecv, nValid, nResp,
                 probeVars, notProbeSrv>>

\* the responder takes the prober's request
SrvFromProber ==
  /\ reqToS.sent
  /\ SrvIteration("P", reqToS.bytes, TRUE)
  /\ reqToS' = NoBytes
  /\ Route
  /\ UNCHANGED <<pPc, pTarget, pNonce, pTimeout, pElapsed, pDgram, pResult, pnSent, pnRecv,
                 notProbeSrv>>

\* the responder takes a request of the attacker, sent from the attacker's address
\* or with the prober's address as its source
SrvFromAdv ==
  \E src \in Addrs, bytes \in AdvToServer :
    /\ pPc # "idle"
    /\ SrvIteration(src, bytes, TRUE)
    /\ Route
    /\ UNCHANGED <<pPc, pTarget, pNonce, pTimeout, pElapsed, pDgram, pResult, pnSent,
                   pnRecv, reqToS, notProbeSrv>>

InitProbe ==
  /\ pPc = "idle"
  /\ pTarget = "none"
  /\ pNonce = 0
  /\ pTimeout = 0
  /\ pElapsed = 0
  /\ pDgram = [got |-> FALSE, bytes |-> <<>>]
  /\ pResult = Result("None", 0)
  /\ pnSent = 0
  /\ pnRecv = 0
  /\ reqToS = NoBytes
  /\ respToP = {}
  /\ advSeen = {}

NextProbe ==
  \/ ProbeStart
  \/ ProbeIoError
  \/ Tick
  \/ ProbeTimeout
  \/ ProbeRecv
  \/ ProbeRecvError
  \/ SrvUp
  \/ SrvFromProber
  \/ SrvFromAdv

\* ------------------------------------------------------------ dht_collect_peers
Peers == 1..NumPeers

\* SocketAddr::from(peer): the V4 address as a SocketAddr
SocketAddrFrom(peer) == 100 + peer

\* what stream.next() can yield: a batch with any repetition of addresses
Batches == UNION {[1..n -> Peers] : n \in 0..MaxBatch}

Range(s) == {s[i] : i \in 1..Len(s)}

\* a slip: the addresses are pushed on a Vec
insert_push(out, x) == Append(out, x)

\* HashSet::insert: out_set is held as the sequence of its elements
insert(out, x) == IF x \in Range(out) THEN out ELSE Append(out, x)

\* for peer in batch { out_set.insert(SocketAddr::from(peer)); }
RECURSIVE insert_batch(_, _)
insert_batch(out, batch) ==
  IF batch = <<>> THEN out
  ELSE insert_batch(insert(out, SocketAddrFrom(Head(batch))), Tail(batch))

\* a slip: every wait is given the whole timeout
wait_budget_whole(deadline, now, timeout) == timeout

\* deadline.saturating_duration_since(Instant::now())
wait_budget(deadline, now, timeout) == IF deadline >= now THEN deadline - now ELSE 0

\* out_set.into_iter().collect(): the elements in the set's iteration order, which
\* is unspecified
Collected(out) == {r \in [1..Len(out) -> Range(out)] : Range(r) = Range(out)}

\* a slip: the loop has no target check
target_reached_never(out, target) == FALSE

\* if out_set.len() >= target { break; }
target_reached(out, target) == Len(out) >= target

\* the loop is left and the function returns
CollectReturn(out, exit) ==
  /\ cPc' = "done"
  /\ cExit' = exit
  /\ \E r \in Collected(out) : cResult' = r

\* dht_collect_peers up to the first wait: out_set, the stream, the deadline
CollectStart ==
  \E target \in 0..(NumPeers + 1), timeout \in 0..MaxCollectTimeout :
    /\ cPc = "idle"
    /\ cPc' = "waiting"
    /\ cTarget' = target
    /\ cTimeout' = timeout
    /\ cDeadline' = cNow + timeout
    /\ cBudget' = wait_budget(cNow + timeout, cNow, timeout)
    /\ cWaited' = 0
    /\ cOut' = <<>>
    /\ UNCHANGED <<cNow, cYielded, cBatch, cResult, cExit, notCollect>>

\* time passes while stream.next() is pending
CollectTick ==
  /\ cPc = "waiting" /\ cWaited < cBudget
  /\ cNow' = cNow + 1
  /\ cWaited' = cWaited + 1
  /\ UNCHANGED <<cPc, cTarget, cTimeout, cDeadline, cBudget, cOut, cYielded, cBatch,
                 cResult, cExit, notCollect>>

\* stream.next() yields Some(batch): insert, then the two breaks, else the next wait
CollectBatch ==
  \E batch \in Batches :
    LET out == insert_batch(cOut, batch)
    IN  /\ cPc = "waiting"
        /\ cOut' = out
        /\ cBatch' = batch
        /\ cYielded' = cYielded \cup {SocketAddrFrom(batch[i]) : i \in 1..Len(batch)}
        /\ IF target_reached(out, cTarget)
           THEN CollectReturn(out, "target") /\ UNCHANGED <<cBudget, cWaited>>
           ELSE IF cNow >= cDeadline
           THEN CollectReturn(out, "deadline") /\ UNCHANGED <<cBudget, cWaited>>
           ELSE /\ cBudget' = wait_budget(cDeadline, cNow, cTimeout)
                /\ cWaited' = 0
                /\ UNCHANGED <<cPc, cResult, cExit>>
        /\ UNCHANGED <<cTarget, cTimeout, cDeadline, cNow, notCollect>>

\* stream.next() yields None: the lookup is over
CollectStreamEnd ==
  /\ cPc = "waiting"
  /\ CollectReturn(cOut, "stream_end")
  /\ UNCHANGED <<cTarget, cTimeout, cDeadline, cNow, cBudget, cWaited, cOut, cYielded,
                 cBatch, notCollect>>

\* the wait's duration has elapsed: Err(Elapsed), unwrap_or(None)
CollectTimeout ==
  /\ cPc = "waiting" /\ cWaited >= cBudget
  /\ CollectReturn(cOut, "timeout")
  /\ UNCHANGED <<cTarget, cTimeout, cDeadline, cNow, cBudget, cWaited, cOut, cYielded,
                 cBatch, notCollect>>

InitCollect ==
  /\ cPc = "idle"
  /\ cTarget = 0
  /\ cTimeout = 0
  /\ cDeadline = 0
  /\ cNow = 0
  /\ cBudget = 0
  /\ cWaited = 0
  /\ cOut = <<>>
  /\ cYielded = {}
  /\ cBatch = <<>>
  /\ cResult = <<>>
  /\ cExit = "none"

NextCollect ==
  \/ CollectStart
  \/ CollectTick
  \/ CollectBatch
  \/ CollectStreamEnd
  \/ CollectTimeout

\* ------------------------------------------------------------ infohash_for
Topics == Strings

\* independent processes that compute the id of a topic
Procs == {"p1", "p2"}

\* blake3::hash(topic.as_bytes()), symbolic: two cells, the first 20 bytes and the
\* last 12, without collisions on Topics
blake3_hash(topic) == <<1 + EncSeq(topic), 1 + EncSeq(topic)>>

\* Id::from_bytes: the 20 bytes as an Id
IdFromBytes(infohash) == infohash[1]

\* a slip: the length of the topic is hashed, not its bytes
infohash_for_len(topic) == IdFromBytes(SubSeq(blake3_hash(Zeros(Len(topic))), 1, 1))

\* infohash_for: the first 20 bytes of the hash, as an Id
infohash_for(topic) == IdFromBytes(SubSeq(blake3_hash(topic), 1, 1))

NoId == [called |-> FALSE, topic |-> <<>>, id |-> 0]

\* a process calls infohash_for on a topic
InfohashCall ==
  \E p \in Procs, topic \in Topics :
    /\ ids' = [ids EXCEPT ![p] = [called |-> TRUE, topic |-> topic, id |-> infohash_for(topic)]]
    /\ UNCHANGED <<aPc, aTopic, aPort, aPeriod, aSlept, aLast, notAnnounce>>

\* ------------------------------------------------------------ dht_reannounce_loop
Ports == 1..NumPorts

NoAttempt == [res |-> "none", infohash |-> 0, port |-> 0]

\* a slip: the loop is left when announce_peer fails
after_announce_stop_on_error(res) == IF res = "err" THEN "returned" ELSE "sleeping"

\* where the loop goes after announce_peer returned: to the sleep, Ok or Err
after_announce(res) == "sleeping"

\* the task is spawned with the id of a topic, a port and a period
AnnounceStart ==
  \E topic \in Topics, port \in Ports, period \in 0..MaxPeriod :
    /\ aPc = "idle"
    /\ aPc' = "announcing"
    /\ aTopic' = topic
    /\ aPort' = port
    /\ aPeriod' = period
    /\ UNCHANGED <<aSlept, aLast, ids, notAnnounce>>

\* dht.announce_peer(infohash, Some(port)) returns res; an Err is printed
AnnounceReturns(res) ==
  /\ aPc = "announcing"
  /\ aLast' = [res |-> res, infohash |-> infohash_for(aTopic), port |-> aPort]
  /\ aPc' = after_announce(res)
  /\ aSlept' = 0
  /\ UNCHANGED <<aTopic, aPort, aPeriod, ids>>

\* announce_peer returns Ok
AnnounceOk == AnnounceReturns("ok") /\ UNCHANGED notAnnounce

\* announce_peer returns Err: eprintln!, and on to the sleep
AnnounceErr == AnnounceReturns("err") /\ UNCHANGED notAnnounce

\* time passes in tokio::time::sleep(period)
SleepTick ==
  /\ aPc = "sleeping" /\ aSlept < aPeriod
  /\ aSlept' = aSlept + 1
  /\ UNCHANGED <<aPc, aTopic, aPort, aPeriod, aLast, ids, notAnnounce>>

\* the sleep is over: the next iteration of the loop
SleepDone ==
  /\ aPc = "sleeping" /\ aSlept >= aPeriod
  /\ aPc' = "announcing"
  /\ UNCHANGED <<aTopic, aPort, aPeriod, aSlept, aLast, ids, notAnnounce>>

\* the owner of the task aborts it
AnnounceCancel ==
  /\ aPc \in {"announcing", "sleeping"}
  /\ aPc' = "cancelled"
  /\ UNCHANGED <<aTopic, aPort, aPeriod, aSlept, aLast, ids, notAnnounce>>

InitAnnounce ==
  /\ aPc = "idle"
  /\ aTopic = <<>>
  /\ aPort = 0
  /\ aPeriod = 0
  /\ aSlept = 0
  /\ aLast = NoAttempt
  /\ ids = [p \in Procs |-> NoId]

NextAnnounce ==
  \/ InfohashCall
  \/ AnnounceStart
  \/ AnnounceOk
  \/ AnnounceErr
  \/ SleepTick
  \/ SleepDone
  \/ AnnounceCancel

\* ------------------------------------------------------------ two concurrent probes
Probes == {"p", "q"}

\* the secret held at an address: the honest responder's at "S", another node's at "A"
SecretAt(addr) == IF addr = "S" THEN ServerSecret ELSE AdvSecret

\* a slip: the nonce is a value shared by all calls
random_nonce_shared(drawn) == {0}

\* rand::random::<Nonce>(): 128 random bits, taken as never drawn twice
random_nonce(drawn) == Nonces \ drawn

\* the nonces drawn by the calls that have started
DrawnNonces == {qNonce[i] : i \in {k \in Probes : qPc[k] # "idle"}}

\* the response into_resp makes, at the address call j probes, of call j's request
ResponseFor(j) ==
  into_resp(Msg(qNonce[j], verifying_key(ProberSecret), Sign(ProberSecret, <<qNonce[j]>>)),
            SecretAt(qTarget[j])).val

NoPairDgram == [got |-> FALSE, for |-> "none", bytes |-> <<>>]

\* call i of probe_peer up to its wait: its own socket, its own nonce, one request
PairStart(i) ==
  \E addr \in {"S", "A"}, nonce \in random_nonce(DrawnNonces) :
    /\ qPc[i] = "idle"
    /\ qPc' = [qPc EXCEPT ![i] = "sent"]
    /\ qTarget' = [qTarget EXCEPT ![i] = addr]
    /\ qNonce' = [qNonce EXCEPT ![i] = nonce]
    /\ UNCHANGED <<qDgram, qResult, notPair>>

\* the socket of call i receives the response made for call j (its own, or the other
\* call's, misdelivered), as from_buf expects it or as to_bytes wrote it
PairRecv(i) ==
  \E j \in Probes, framed \in BOOLEAN :
    LET resp == to_bytes(ResponseFor(j))
        bytes == IF framed THEN Frame(resp) ELSE resp
    IN  /\ qPc[i] = "sent" /\ qPc[j] # "idle"
        /\ qPc' = [qPc EXCEPT ![i] = after_recv(probe_result(bytes, qNonce[i]))]
        /\ qDgram' = [qDgram EXCEPT ![i] = [got |-> TRUE, for |-> j, bytes |-> bytes]]
        /\ qResult' = [qResult EXCEPT ![i] = probe_result(bytes, qNonce[i])]
        /\ UNCHANGED <<qTarget, qNonce, notPair>>

\* the timeout of call i elapses first
PairTimeout(i) ==
  /\ qPc[i] = "sent"
  /\ qPc' = [qPc EXCEPT ![i] = "done"]
  /\ qResult' = [qResult EXCEPT ![i] = Result("Timeout", 0)]
  /\ UNCHANGED <<qTarget, qNonce, qDgram, notPair>>

InitPair ==
  /\ qPc = [i \in Probes |-> "idle"]
  /\ qTarget = [i \in Probes |-> "none"]
  /\ qNonce = [i \in Probes |-> 0]
  /\ qDgram = [i \in Probes |-> NoPairDgram]
  /\ qResult = [i \in Probes |-> Result("None", 0)]

NextPair ==
  \/ \E i \in Probes : PairStart(i)
  \/ \E i \in Probes : PairRecv(i)
  \/ \E i \in Probes : PairTimeout(i)

\* ------------------------------------------------------------ repeated verification
\* events signed through the builder, by any secret
BuilderSigned ==
  {sign_chat_event(b, sk, n) : b \in GossipBodies, sk \in Secrets, n \in Nonces}

\* SignedChatEvent values a verifier can be handed: events signed through the
\* builder, events a node signed over body bytes of its choice (well-formed, unknown
\* tag, truncated), and each of these with one field altered
VerifierInputs == UNION {AdvVariants(e) : e \in BuilderSigned \cup AdvOwnEvents}

\* an event reaches the verifier
VerifyPick ==
  \E e \in VerifierInputs :
    /\ vEvent = NoSigned
    /\ vEvent' = e
    /\ UNCHANGED <<vLog, notVerify>>

\* verify_into(self) on one more copy of the event (a clone, or a rebroadcast)
VerifyCopy ==
  /\ vEvent # NoSigned /\ Len(vLog) < MaxReplays
  /\ vLog' = Append(vLog, verify_into(vEvent))
  /\ UNCHANGED <<vEvent, notVerify>>

InitVerify ==
  /\ vEvent = NoSigned
  /\ vLog = <<>>

NextVerify ==
  \/ VerifyPick
  \/ VerifyCopy

\* ------------------------------------------------------------ specifications
vars == <<eventVars, gossipVars, srvVars, probeVars, dhtVars, pairVars, verifyVars>>

Init ==
  /\ InitEvent /\ InitGossip /\ InitSrv /\ InitProbe /\ InitCollect /\ InitAnnounce
  /\ InitPair /\ InitVerify

Next == NextEvent

\* building, signing, tampering with and verifying one event
Spec == Init /\ [][Next]_vars

\* the gossip topic with honest senders, an attacker, and the receive loop
SpecGossip == Init /\ [][NextGossip]_vars

\* the WhoAmI responder and the datagrams it receives
SpecResponder == Init /\ [][NextSrv]_vars

\* one probe_peer call, the honest responder, and an attacker on the network
SpecProbe == Init /\ [][NextProbe]_vars

\* the same, with the runtime's timer running: time passes while the call waits,
\* and a timeout that has elapsed fires
FairSpecProbe == SpecProbe /\ WF_vars(Tick) /\ WF_vars(ProbeTimeout)

\* one call of dht_collect_peers and the lookup stream
SpecCollect == Init /\ [][NextCollect]_vars

\* the same, with the runtime's timer running
FairSpecCollect == SpecCollect /\ WF_vars(CollectTick) /\ WF_vars(CollectTimeout)

\* the announce task and processes that compute content ids
SpecAnnounce == Init /\ [][NextAnnounce]_vars

\* the same, with announce_peer returning and the runtime's timer running
FairSpecAnnounce ==
  SpecAnnounce /\ WF_vars(AnnounceOk \/ AnnounceErr) /\ WF_vars(SleepTick)
    /\ WF_vars(SleepDone)

\* two concurrent calls of probe_peer and the responses made for them
SpecPair == Init /\ [][NextPair]_vars

\* a verifier and the copies of one event
SpecVerify == Init /\ [][NextVerify]_vars

\* ------------------------------------------------------------ claims on Spec

\* C1: round trip. Whatever payload was chosen and whatever secret signed it,
\* verify_into on the untouched result of sign returns Ok with a ChatEvent of the
\* same variant, the same name and message, and actor = the public key of the secret.
C1_RoundTrip ==
  (vres # NoResult /\ tampered = "no") =>
    /\ vres.kind = "Ok"
    /\ vres.event = Event(chosen.tag, verifying_key(signKey), chosen.name, chosen.message)

C1_Witness ==
  /\ vres.kind = "Ok" /\ tampered = "no"
  /\ chosen.tag = "NewMessage" /\ chosen.name # <<>> /\ chosen.message # <<>>
  /\ vres.event.actor = verifying_key(signKey)

\* C2: tamper evidence. After one field of a signed event (a byte of body_bytes,
\* the nonce, the key or the signature) is changed, verify_into fails, and with the
\* signature error (Dalek), never Ok and never the deserialization error.
C2_TamperEvident ==
  (vres # NoResult /\ tampered # "no") => vres.kind = "Dalek"

\* a tampered body that no longer deserializes is still reported as a bad signature
C2_Witness ==
  /\ tampered = "body_bytes" /\ vres.kind = "Dalek"
  /\ ~FromBytesBody(signedEv.body_bytes).ok

\* C4: staged construction. A SignedChatEvent exists only after exactly one payload
\* choice and one sign call with a key; a builder is given a payload at most once,
\* signed at most once, and never given a payload after it was signed.
C4_Staged ==
  /\ nPayload <= 1 /\ nSign <= 1
  /\ nSign = 1 => nPayload = 1
  /\ signedEv # NoSigned => (nPayload = 1 /\ nSign = 1 /\ signKey \in Secrets)
  /\ nSign = 1 => (builder = Moved /\ ~IsInitial(builder) /\ ~IsReadyToSign(builder))

C4_Witness ==
  /\ signedEv # NoSigned /\ builder = Moved /\ nSign = 1 /\ nPayload = 1
  /\ chosen.tag = "SetName"

\* ------------------------------------------------------------ claims on SpecGossip

\* C3: attribution. Every ChatEvent that verify_into returns in the receive loop has
\* as actor the key embedded in the SignedChatEvent, the signature of that event
\* verifies under that key, and, when the key belongs to an honest node, that node
\* signed this very (body_bytes, nonce) pair; the attacker holds no honest secret.
C3_Attribution ==
  lastDelivered # NoDelivered =>
    LET f == lastDelivered.from
        ev == lastDelivered.event
    IN  /\ ev.actor = NodeIdFrom(f.key)
        /\ verify_strict(f.key, f.body_bytes \o <<f.nonce>>, f.sig)
        /\ f.key \in HonestKeys =>
             \E h \in honestSigned :
               h.key = f.key /\ h.body_bytes = f.body_bytes /\ h.nonce = f.nonce
        /\ Body(ev.tag, ev.name, ev.message) = FromBytesBody(f.body_bytes).body

\* an event that names an honest key without that node's signature was taken and
\* dropped, after an honest event had been delivered
C3_Witness ==
  /\ lastOutcome = "verify_failed"
  /\ from_bytes_signed(lastMsg).val.key \in HonestKeys
  /\ from_bytes_signed(lastMsg).val \notin honestSigned
  /\ lastDelivered.event.actor \in HonestKeys

\* C16: wire round trip. When the loop takes the bytes to_vec made of an event that
\* an honest node signed, deserializing them gives back that event, field by field,
\* and the loop delivers the ChatEvent that verify_into returns for the original.
C16_WireRoundTrip ==
  \A h \in honestSigned :
    (lastOutcome # "none" /\ lastMsg = to_vec(h)) =>
      /\ from_bytes_signed(lastMsg) = [ok |-> TRUE, val |-> h]
      /\ lastOutcome = "delivered"
      /\ lastDelivered = [event |-> verify_into(h).event, from |-> h]

C16_Witness ==
  /\ lastOutcome = "delivered" /\ lastDelivered.from \in honestSigned
  /\ lastMsg = to_vec(lastDelivered.from)
  /\ lastDelivered.event.tag = "NewMessage" /\ lastDelivered.event.message # <<>>
  /\ lastDelivered.from.nonce = MaxNonce

\* C10: receive loop resilience. A message that fails to deserialize or fails
\* verify_into is dropped and the loop goes on: the loop is never found returned
\* with the deserialization error after such a message.
C10_LoopSurvivesBadMessage ==
  ~(lastOutcome \in {"deserialize_failed", "verify_failed"} /\ loopState = "err_postcard")

\* ------------------------------------------------------------ claims on SpecResponder

\* C8: no reflection. A datagram that is not a valid request (it does not decode to
\* a request, or its client signature does not verify) gets no answer; the responses
\* sent never outnumber the valid requests received; a response goes to the source
\* address of the datagram that caused it.
C8_NoReflection ==
  /\ (srvDgram # NoDgram /\ ~IsValidRequest(srvDgram.bytes)) => srvResp = NoResp
  /\ nResp <= nValid
  /\ srvResp # NoResp => srvResp.to = srvDgram.src

\* C9: responder answer. A valid request received by a running responder is answered
\* (unless send_to itself reports an error) with one datagram to its source address
\* that carries the request's nonce, the responder's key and the responder's
\* signature over that nonce.
C9_Answer ==
  (srvDgram # NoDgram /\ IsValidRequest(srvDgram.bytes) /\ srvReaction # "send_error") =>
    LET w == DecodeAlone(srvDgram.bytes).val
    IN  /\ srvReaction = "answered"
        /\ srvResp = [to |-> srvDgram.src,
                      bytes |-> to_bytes(Msg(w.nonce, verifying_key(ServerSecret),
                                             Sign(ServerSecret, <<w.nonce>>)))]

\* C14: the responder does not stop by itself. Once bound it keeps serving: after a
\* failed recv_from or send_to that leaves the socket usable, the loop is still
\* running and takes the next datagram.
C14_KeepsServing ==
  srvSocket = "usable" => srvState = "running"

\* C17: responder statelessness. What the responder does with a datagram (drop it,
\* or the exact response it sends) is what it does with the same datagram as the
\* first one it ever received, whatever it received before.
C17_Stateless ==
  (srvDgram # NoDgram /\ srvReaction # "send_error") =>
    LET w == DecodeAlone(srvDgram.bytes)
        r == into_resp(w.val, ServerSecret)
    IN  /\ srvReaction = (IF ~w.ok THEN "dropped_undecodable"
                          ELSE IF ~r.ok THEN "dropped_bad_signature" ELSE "answered")
        /\ srvResp = (IF w.ok /\ r.ok
                      THEN [to |-> srvDgram.src, bytes |-> to_bytes(r.val)]
                      ELSE NoResp)

\* ------------------------------------------------------------ claims on SpecProbe
\* C5: identity proof. When probe_peer(addr, ..) returns Ok(K), K is the public key
\* of the secret held at addr (the honest responder's at "S", the attacker's at
\* "A"); an attacker at addr that can send requests to the honest responder and
\* forward its answers never makes the call return the responder's key.
C5_IdentityProof ==
  pResult.kind = "Ok" =>
    pResult.id = NodeIdFrom(verifying_key(IF pTarget = "S" THEN ServerSecret ELSE AdvSecret))

\* C6: nonce binding. A datagram that decodes to a response whose nonce is not the
\* nonce sent makes probe_peer return InvalidNonce, whatever its key and signature.
C6_NonceBinding ==
  (pDgram.got /\ DecodeAlone(pDgram.bytes).ok
     /\ DecodeAlone(pDgram.bytes).val.nonce # pNonce) =>
    pResult.kind = "InvalidNonce"

\* the rejected response carries the honest responder's key and its signature over
\* the nonce it echoes
C6_Witness ==
  LET d == DecodeAlone(pDgram.bytes)
  IN  /\ pDgram.got /\ d.ok /\ d.val.nonce # pNonce
      /\ d.val.key = verifying_key(ServerSecret)
      /\ verify_strict(d.val.key, <<d.val.nonce>>, d.val.sig)
      /\ pResult.kind = "InvalidNonce"

\* C18: honest probe succeeds. When the responder at "S" receives, as its first
\* datagram, the very bytes probe_peer sent, it decodes them, accepts the request and
\* answers the prober.
C18_HonestProbe ==
  (pTarget = "S" /\ nRecv = 1
     /\ srvDgram = [src |-> "P",
                    bytes |-> to_bytes(Msg(pNonce, verifying_key(ProberSecret),
                                           Sign(ProberSecret, <<pNonce>>)))]) =>
    (srvReaction = "answered" /\ srvResp.to = "P")

\* C19: probe acceptance condition. Ok(id) is returned only for a datagram, taken
\* before the timeout fired, that decodes to a response with the nonce of this call
\* and a signature over that nonce that verifies under the response's key, and id is
\* that key; the datagram is judged in the order decode, nonce, signature.
C19_Acceptance ==
  LET d == DecodeAlone(pDgram.bytes)
      sig_ok == verify_strict(d.val.key, <<pNonce>>, d.val.sig)
  IN  /\ pResult.kind = "Ok" =>
            /\ pDgram.got /\ pElapsed <= pTimeout
            /\ d.ok /\ d.val.nonce = pNonce /\ sig_ok
            /\ pResult.id = NodeIdFrom(d.val.key)
      /\ pDgram.got =>
            pResult.kind = (IF ~d.ok THEN "Postcard"
                            ELSE IF d.val.nonce # pNonce THEN "InvalidNonce"
                            ELSE IF ~sig_ok THEN "Dalek" ELSE "Ok")

\* a response with both a wrong nonce and a signature that verifies for neither
\* nonce was rejected for its nonce
C19_Witness ==
  LET d == DecodeAlone(pDgram.bytes)
  IN  /\ pDgram.got /\ d.ok /\ d.val.nonce # pNonce
      /\ ~verify_strict(d.val.key, <<pNonce>>, d.val.sig)
      /\ ~verify_strict(d.val.key, <<d.val.nonce>>, d.val.sig)
      /\ pResult.kind = "InvalidNonce"

\* C20: single exchange per probe. A call sends one request and takes at most one
\* datagram; it goes idle -> sent -> done, where done is one of verified (Ok), timed
\* out, rejected (InvalidNonce, Dalek, Postcard) or a socket error, and once done it
\* sends nothing and takes nothing more.
C20_SingleExchange ==
  /\ [](pnSent <= 1 /\ pnRecv <= 1)
  /\ [](pPc = "sent" => (pnSent = 1 /\ pnRecv = 0))
  /\ [](pPc = "done" =>
          /\ pResult.kind \in {"Ok", "Timeout", "InvalidNonce", "Dalek", "Postcard", "Io"}
          /\ pDgram.got <=> pnRecv = 1
          /\ pResult.kind \in {"Ok", "InvalidNonce", "Dalek", "Postcard"} <=> pDgram.got
          /\ pResult.kind = "Timeout" => pnSent = 1)
  /\ [][pPc' # pPc =>
          <<pPc, pPc'>> \in {<<"idle", "sent">>, <<"idle", "done">>, <<"sent", "done">>}]_vars
  /\ [][pPc = "done" => UNCHANGED <<pPc, pResult, pnSent, pnRecv, pDgram>>]_vars

\* the only datagram taken was rejected while time was left, and the call returned
C20_Witness ==
  /\ pPc = "done" /\ pnSent = 1 /\ pnRecv = 1
  /\ pResult.kind = "Postcard" /\ pElapsed < pTimeout

\* ------------------------------------------------------------ claims on FairSpecProbe

\* C7: probe termination. A call that is waiting has not waited longer than its
\* timeout; a call that received no datagram and met no socket error returned
\* Timeout, when exactly the timeout had elapsed; and every call that is waiting
\* eventually returns, whatever the network does.
C7_ProbeTerminates ==
  /\ [](pPc = "sent" => pElapsed <= pTimeout)
  /\ []((pPc = "done" /\ ~pDgram.got /\ pResult.kind # "Io") =>
          (pResult.kind = "Timeout" /\ pElapsed = pTimeout))
  /\ ((pPc = "sent") ~> (pPc = "done"))

\* a call to the attacker's address, which stays silent, returned Timeout
C7_Witness ==
  /\ pPc = "done" /\ pTarget = "A" /\ ~pDgram.got /\ respToP = {}
  /\ pResult.kind = "Timeout" /\ pElapsed = pTimeout /\ pTimeout >= 1

\* ------------------------------------------------------------ claims on SpecCollect

\* C11: collect has no duplicates. Whatever batches the lookup yielded, with
\* addresses repeated within and across batches, the Vec that dht_collect_peers
\* returns holds each address at most once and only addresses the lookup yielded.
C11_NoDuplicates ==
  cPc = "done" =>
    /\ \A i, j \in 1..Len(cResult) : i # j => cResult[i] # cResult[j]
    /\ Range(cResult) \subseteq cYielded

\* the last batch repeated an address that an earlier batch had yielded already
C11_Witness ==
  /\ cPc = "done" /\ cExit = "deadline" /\ cNow >= 1
  /\ Len(cBatch) = 2 /\ cBatch[1] = cBatch[2]
  /\ cResult = <<SocketAddrFrom(cBatch[1])>>

\* C22: collect early-return condition. A call that returned before its deadline
\* left the loop because the unique addresses reached target (then it returns at
\* least target of them, possibly more) or because the lookup stream ended; and a
\* call is never found waiting for another batch with target or more unique
\* addresses collected, except before its first batch (the check follows a batch).
C22_EarlyReturn ==
  /\ (cPc = "done" /\ cNow < cDeadline) =>
       /\ cExit \in {"target", "stream_end"}
       /\ cExit = "target" => Len(cResult) >= cTarget
  /\ cExit = "target" => (cPc = "done" /\ Len(cResult) >= cTarget)
  /\ cPc = "waiting" =>
       (Len(cOut) < cTarget \/ (cOut = <<>> /\ cBatch = <<>> /\ cYielded = {}))

\* one batch brought more unique addresses than target, before the deadline
C22_Witness ==
  /\ cPc = "done" /\ cExit = "target" /\ cNow < cDeadline
  /\ cTarget >= 1 /\ Len(cResult) > cTarget

\* ------------------------------------------------------------ claims on FairSpecCollect

\* C12: collect is deadline-bounded and total. The call is never found past its
\* deadline; every wait for a batch is given at most the time left until the
\* deadline; the loop is left only by a return of the Vec (no error), which is
\* empty when the lookup yielded nothing; and a call that waits eventually returns.
C12_DeadlineBounded ==
  /\ [](cPc \in {"waiting", "done"} => cNow <= cDeadline)
  /\ [](cPc = "waiting" =>
          (cWaited <= cBudget /\ (cNow - cWaited) + cBudget <= cDeadline))
  /\ [](cPc = "done" => cExit \in {"target", "deadline", "stream_end", "timeout"})
  /\ []((cPc = "done" /\ cYielded = {}) => cResult = <<>>)
  /\ ((cPc = "waiting") ~> (cPc = "done"))

\* the lookup yielded nothing and the call returned the empty Vec at its deadline
C12_Witness ==
  /\ cPc = "done" /\ cExit = "timeout" /\ cYielded = {} /\ cResult = <<>>
  /\ cTimeout = MaxCollectTimeout /\ cNow = cDeadline

\* ------------------------------------------------------------ claims on FairSpecAnnounce

\* C13: announce loop liveness. The loop never returns by itself; every attempt
\* uses the same (infohash, port); after an attempt, Ok or Err, the loop sleeps for
\* the whole period and then makes the next attempt, unless the task is cancelled.
C13_AnnounceForever ==
  /\ [](aPc \in {"idle", "announcing", "sleeping", "cancelled"})
  /\ [](aLast # NoAttempt => (aLast.infohash = infohash_for(aTopic) /\ aLast.port = aPort))
  /\ [][(aPc = "sleeping" /\ aPc' = "announcing") => aSlept = aPeriod]_vars
  /\ ((aPc = "announcing") ~> (aPc \in {"sleeping", "cancelled"}))
  /\ ((aPc = "sleeping" /\ aLast.res = "err") ~> (aPc \in {"announcing", "cancelled"}))
  /\ ((aPc = "sleeping" /\ aLast.res = "ok") ~> (aPc \in {"announcing", "cancelled"}))

\* the loop is at its next attempt after a failed one and a whole period of sleep
C13_Witness ==
  /\ aPc = "announcing" /\ aLast.res = "err"
  /\ aPeriod = MaxPeriod /\ aSlept = aPeriod

\* ------------------------------------------------------------ claims on SpecAnnounce

C21_ProbeIsolation ==
  /\ [](\A i, j \in Probes :
          (i # j /\ qPc[i] # "idle" /\ qPc[j] # "idle") => qNonce[i] # qNonce[j])
  /\ [](\A i \in Probes :
          (qDgram[i].got /\ qDgram[i].for # i) => qResult[i].kind # "Ok")
  /\ [](\A i \in Probes :
          qPc[i] = "done" =>
            qResult[i] = (IF qDgram[i].got THEN probe_result(qDgram[i].bytes, qNonce[i])
                          ELSE Result("Timeout", 0)))
  /\ [][\A i, j \in Probes :
          (i # j /\ <<qPc[i], qTarget[i], qNonce[i], qDgram[i], qResult[i]>>'
                      # <<qPc[i], qTarget[i], qNonce[i], qDgram[i], qResult[i]>>) =>
            UNCHANGED <<qPc[j], qTarget[j], qNonce[j], qDgram[j], qResult[j]>>]_vars

\* both calls probe the honest responder; p was handed the response made for q and
\* rejected it for its nonce, q accepted its own
C21_Witness ==
  /\ qTarget["p"] = "S" /\ qTarget["q"] = "S"
  /\ qDgram["p"].got /\ qDgram["p"].for = "q" /\ qResult["p"].kind = "InvalidNonce"
  /\ qDgram["q"].got /\ qDgram["q"].for = "q" /\ qResult["q"].kind = "Ok"

\* ------------------------------------------------------------ claims on SpecVerify

\* C23: verification order and statelessness. verify_into judges the signature over
\* body_bytes followed by the nonce first: with an invalid signature the result is
\* Dalek whatever the body; Postcard is the result exactly for a body that does not
\* deserialize under a valid signature; and every copy of the same event gets the
\* same result, Ok with the same ChatEvent for a valid one.
C23_OrderAndReplay ==
  \A k \in 1..Len(vLog) :
    LET r == vLog[k]
        sig_ok == verify_strict(vEvent.key, vEvent.body_bytes \o <<vEvent.nonce>>, vEvent.sig)
        d == FromBytesBody(vEvent.body_bytes)
    IN  /\ r = vLog[1]
        /\ ~sig_ok => r.kind = "Dalek"
        /\ r.kind = "Postcard" <=> (sig_ok /\ ~d.ok)
        /\ r.kind = "Ok" <=> (sig_ok /\ d.ok)
        /\ r.kind = "Ok" =>
             r.event = Event(d.body.tag, NodeIdFrom(vEvent.key), d.body.name, d.body.message)

\* a valid event was verified MaxReplays times, with Ok each time
C23_Witness ==
  /\ Len(vLog) = MaxReplays /\ vEvent \in BuilderSigned
  /\ \A k \in 1..Len(vLog) : vLog[k].kind = "Ok"

====
